---- MODULE Spec2Model ----
(***************************************************************************)
(* A2A task orchestration engine: the update-merge algorithm               *)
(* (applyUpdateToTaskAndHistory), the task lifecycle controller            *)
(* (loadOrCreateTaskAndHistory) and the request operations of A2AServer    *)
(* (taskSend, taskSendSubscribe, taskGet, taskCancel) over a shared task   *)
(* store and cancellation-flag set.                                        *)
(*                                                                         *)
(* JavaScript objects are records; an optional key that is missing is a    *)
(* key outside the record's DOMAIN, so object spread and the structural    *)
(* type guards are computed as the code computes them.                     *)
(***************************************************************************)
EXTENDS Integers, Sequences, FiniteSets, TLC

VARIABLES
    store,        \* taskStore: task id -> <<>> (no record) or <<TaskAndHistory>>
    flags,        \* activeCancellations: set of task ids
    req,          \* per request slot: position and locals of the running operation
    stream,       \* per request slot: the SSE stream of a tasks/sendSubscribe call
    now,          \* the clock read by getCurrentTimestamp
    started,      \* number of requests dispatched so far
    returned,     \* the operation that returned in the last step, with its answer
                  \* and its stream; <<>> after any other step
    snap,         \* update model: the snapshot the next update is applied to
    prevSnap,     \* update model: the snapshot the last update was applied to
    lastUpd,      \* update model: the last update applied, <<>> before the first
    nApplied,     \* update model: number of updates applied
    insertedIdx,  \* update model: indices carried by the updates applied so far
    distinctIdx,  \* update model: every update so far was an artifact update of
                  \* parts and an index no earlier update carried
    heap,         \* object model: the JavaScript objects and arrays allocated so
                  \* far, by address
    cur,          \* object model: addresses of the task object and the history
                  \* array of the current snapshot
    envelope      \* router: the decoded body of a POST and what the router did
                  \* with it; <<>> where no body is under validation

vars == <<store, flags, req, stream, now, started, returned,
          snap, prevSnap, lastUpd, nApplied, insertedIdx, distinctIdx, heap, cur,
          envelope>>

serverVars == <<store, flags, req, stream, started, returned>>
applyVars == <<snap, prevSnap, lastUpd, nApplied, insertedIdx, distinctIdx,
               heap, cur, envelope>>

----------------------------------------------------------------------------
(* Bounds *)

MaxClock == 1
MaxApply == 3
MaxRequests == 2
MaxYields == 2

----------------------------------------------------------------------------
(* JavaScript object helpers *)

Has(o, k) == k \in DOMAIN o

\* { ...a, ...b }
Spread(a, b) ==
    [k \in (DOMAIN a) \cup (DOMAIN b) |-> IF k \in DOMAIN b THEN b[k] ELSE a[k]]

\* a with key k set to v
SetKey(o, k, v) == [j \in (DOMAIN o) \cup {k} |-> IF j = k THEN v ELSE o[j]]

EmptyObject == [k \in {} |-> "-"]

\* message: null
Null == [role |-> "none", text |-> "null"]

\* the n-th request's message: every request carries its own text
MessageTexts == <<"m1", "m2", "m3", "m4", "m5", "m6">>

UserMessage(n) == [role |-> "user", text |-> MessageTexts[n]]

\* s is a prefix of t
IsPrefix(s, t) == Len(s) <= Len(t) /\ SubSeq(t, 1, Len(s)) = s

----------------------------------------------------------------------------
(* utils: structural type guards *)

IsTaskStatusUpdate(update) == Has(update, "state") /\ ~Has(update, "parts")

IsArtifactUpdate(update) == Has(update, "parts")

----------------------------------------------------------------------------
(* tasks: applyUpdateToTaskAndHistory *)

\* (a.index ?? 0)
SortKey(a) == IF Has(a, "index") THEN a.index ELSE 0

\* Array.prototype.sort is stable: x goes behind every element whose key is
\* not greater than its own.
RECURSIVE InsertSorted(_, _)
InsertSorted(s, x) ==
    IF s = <<>> THEN <<x>>
    ELSE IF SortKey(Head(s)) <= SortKey(x)
         THEN <<Head(s)>> \o InsertSorted(Tail(s), x)
         ELSE <<x>> \o s

RECURSIVE SortByIndex(_)
SortByIndex(s) ==
    IF s = <<>> THEN <<>>
    ELSE InsertSorted(SortByIndex(SubSeq(s, 1, Len(s) - 1)), s[Len(s)])

\* artifacts.findIndex((a) => a.name === update.name), 1-based, 0 if none
FindByName(artifacts, name) ==
    LET hits == {i \in 1..Len(artifacts) :
                    Has(artifacts[i], "name") /\ artifacts[i].name = name}
    IN IF hits = {} THEN 0 ELSE CHOOSE i \in hits : \A j \in hits : i <= j

\* mutant: the append branch keeps only the update's parts
AppendedArtifact_DropsParts(existing, update) ==
    SetKey(Spread(existing, update), "parts", update.parts)

\* the append branch: deep copy of the existing artifact with the update merged in
AppendedArtifact(existing, update) ==
    LET a1 == SetKey(existing, "parts", existing.parts \o update.parts)
        a2 == IF Has(update, "metadata")
              THEN SetKey(a1, "metadata",
                          Spread(IF Has(a1, "metadata") THEN a1.metadata ELSE EmptyObject,
                                 update.metadata))
              ELSE a1
        a3 == IF Has(update, "lastChunk")
              THEN SetKey(a2, "lastChunk", update.lastChunk)
              ELSE a2
    IN IF Has(update, "description") /\ update.description # ""
       THEN SetKey(a3, "description", update.description)
       ELSE a3

\* mutant: an update without append is merged into the slot as well
ReplaceAtIndex_AlwaysMerges(artifacts, slot, update) ==
    [artifacts EXCEPT ![slot] = AppendedArtifact(artifacts[slot], update)]

\* the slot replaced when the update's index is inside the array
ReplaceAtIndex(artifacts, slot, update) ==
    IF Has(update, "append") /\ update.append = TRUE
    THEN [artifacts EXCEPT ![slot] = AppendedArtifact(artifacts[slot], update)]
    ELSE [artifacts EXCEPT ![slot] = update]

\* the artifact branch of applyUpdateToTaskAndHistory
ApplyArtifact(artifacts, update) ==
    LET existingIndex == IF Has(update, "index") THEN update.index ELSE -1
        namedIndex == IF Has(update, "name") /\ update.name # ""
                      THEN FindByName(artifacts, update.name) ELSE 0
    IN IF existingIndex >= 0 /\ existingIndex < Len(artifacts)
       THEN ReplaceAtIndex(artifacts, existingIndex + 1, update)
       ELSE IF namedIndex > 0
            THEN [artifacts EXCEPT ![namedIndex] = update]
            ELSE LET pushed == Append(artifacts, update)
                 IN IF \E i \in 1..Len(pushed) : Has(pushed[i], "index")
                    THEN SortByIndex(pushed)
                    ELSE pushed

\* the status branch letting a timestamp carried by the update stand
ApplyStatus_KeepsCarriedTimestamp(current, update, ts) ==
    [task |-> [current.task EXCEPT
                 !.status = IF Has(update, "timestamp")
                            THEN Spread(current.task.status, update)
                            ELSE SetKey(Spread(current.task.status, update),
                                        "timestamp", ts)],
     history |-> IF Has(update, "message") /\ update.message.role = "agent"
                 THEN Append(current.history, update.message)
                 ELSE current.history]

\* the status branch recording the message of the merged status in place of
\* the update's own
ApplyStatus_RecordsMergedMessage(current, update, ts) ==
    LET status == SetKey(Spread(current.task.status, update), "timestamp", ts)
    IN [task |-> [current.task EXCEPT !.status = status],
        history |-> IF status.message.role = "agent"
                    THEN Append(current.history, status.message)
                    ELSE current.history]

\* the status branch: merged status and the history it leaves
ApplyStatus(current, update, ts) ==
    [task |-> [current.task EXCEPT
                 !.status = SetKey(Spread(current.task.status, update), "timestamp", ts)],
     history |-> IF Has(update, "message") /\ update.message.role = "agent"
                 THEN Append(current.history, update.message)
                 ELSE current.history]

ApplyUpdate(current, update, ts) ==
    IF IsTaskStatusUpdate(update) THEN ApplyStatus(current, update, ts)
    ELSE IF IsArtifactUpdate(update)
         THEN [task |-> [current.task EXCEPT
                           !.artifacts = ApplyArtifact(current.task.artifacts, update)],
               history |-> current.history]
         ELSE current

----------------------------------------------------------------------------
(* The update model on its own: updates applied one after another to the   *)
(* snapshot loadOrCreateTaskAndHistory creates for an unseen task id.      *)

InitialTask(taskId, ts) ==
    [id |-> taskId,
     status |-> [state |-> "submitted", timestamp |-> ts, message |-> Null],
     artifacts |-> <<>>,
     metadata |-> EmptyObject]

\* an object or array on the heap: its fields (a field that refers to another
\* object holds that object's address) and, for an array, its items
Cell(kind, obj, items) == [kind |-> kind, obj |-> obj, items |-> items]

\* the snapshot of a new task as objects: status, artifacts array, task, history
InitialHeap ==
    <<Cell("status", InitialTask("t1", 0).status, <<>>),
      Cell("array", EmptyObject, <<>>),
      Cell("task", [id |-> "t1", status |-> 1, artifacts |-> 2,
                    metadata |-> EmptyObject], <<>>),
      Cell("history", EmptyObject, <<UserMessage(1)>>)>>

InitialCur == [task |-> 3, history |-> 4]

\* the k-th update carries its own part, so that merged parts are told apart
PartTexts == <<"A", "B", "C", "D", "E">>

IndexChoices == {[index |-> 0], [index |-> 1], [index |-> 2], EmptyObject}
NameChoices == {[name |-> "n1"], EmptyObject}
AppendChoices == {[append |-> TRUE], EmptyObject}

\* lastChunk / description / metadata as a handler may supply them
ExtraChoices ==
    {[lastChunk |-> TRUE, description |-> "d1",
      metadata |-> [k1 |-> "v1", k2 |-> "v1"]],
     [lastChunk |-> FALSE, description |-> "", metadata |-> EmptyObject],
     [description |-> "d2", metadata |-> [k1 |-> "v2"]]}

ArtifactUpdates(k) ==
    LET parts == [parts |-> <<PartTexts[k]>>]
    IN {Spread(Spread(Spread(parts, i), n), a) :
            i \in IndexChoices, n \in NameChoices, a \in AppendChoices}
       \cup {Spread(Spread(Spread(parts, [index |-> 0]), a), e) :
            a \in AppendChoices \cup {[append |-> FALSE]}, e \in ExtraChoices}

InitApply ==
    /\ store = [t \in {} |-> <<>>]
    /\ flags = {}
    /\ req = <<>>
    /\ stream = <<>>
    /\ started = 0
    /\ returned = <<>>
    /\ now = 0
    /\ snap = [task |-> InitialTask("t1", 0), history |-> <<UserMessage(1)>>]
    /\ prevSnap = snap
    /\ lastUpd = <<>>
    /\ nApplied = 0
    /\ insertedIdx = {}
    /\ distinctIdx = TRUE
    /\ heap = InitialHeap
    /\ cur = InitialCur
    /\ envelope = <<>>

\* currentData = applyUpdateToTaskAndHistory(currentData, update)
ApplyStep(update) ==
    /\ nApplied < MaxApply
    /\ snap' = ApplyUpdate(snap, update, now)
    /\ prevSnap' = snap
    /\ lastUpd' = <<update>>
    /\ nApplied' = nApplied + 1
    /\ insertedIdx' = IF Has(update, "index")
                      THEN insertedIdx \cup {update.index} ELSE insertedIdx
    /\ distinctIdx' = (distinctIdx /\ DOMAIN update = {"parts", "index"}
                          /\ update.index \notin insertedIdx)
    /\ UNCHANGED <<serverVars, now, heap, cur, envelope>>

NextApply == \E update \in ArtifactUpdates(nApplied + 1) : ApplyStep(update)

SpecApply == InitApply /\ [][NextApply]_vars

----------------------------------------------------------------------------
(* applyUpdateToTaskAndHistory over objects: what it allocates and what it *)
(* writes. An address is a position in heap; allocation appends a cell.    *)

Alloc(h, cell) == Append(h, cell)

Write(h, a, cell) == [h EXCEPT ![a] = cell]

\* the artifact held by the object at address a
ArtifactAt(h, a) == SetKey(h[a].obj, "parts", h[h[a].obj.parts].items)

\* the artifacts held by the array at address arr
ArtifactsAt(h, arr) ==
    [i \in 1..Len(h[arr].items) |-> ArtifactAt(h, h[arr].items[i])]

\* the TaskAndHistory value seen through the references c
Deref(h, c) ==
    LET t == h[c.task].obj
    IN [task |-> [id |-> t.id,
                  status |-> h[t.status].obj,
                  artifacts |-> ArtifactsAt(h, t.artifacts),
                  metadata |-> t.metadata],
        history |-> h[c.history].items]

\* { ...update }: a new artifact object; its parts array is the update's own
HeapNewArtifact(h, update) ==
    LET h1 == Alloc(h, Cell("parts", EmptyObject, update.parts))
    IN [heap |-> Alloc(h1, Cell("artifact", SetKey(update, "parts", Len(h) + 1), <<>>)),
        addr |-> Len(h) + 2]

\* the append branch writing to the existing artifact and its parts array
HeapAppend_InPlace(h, existing, update) ==
    LET old == h[existing].obj
        h1 == Write(h, old.parts,
                    Cell("parts", EmptyObject, h[old.parts].items \o update.parts))
    IN [heap |-> Write(h1, existing,
                       Cell("artifact",
                            SetKey(AppendedArtifact(ArtifactAt(h, existing), update),
                                   "parts", old.parts), <<>>)),
        addr |-> existing]

\* the append branch: JSON.parse(JSON.stringify(existingArtifact)) allocates a
\* new artifact object with a new parts array; the pushes and assignments that
\* follow go to the copy
HeapAppend(h, existing, update) ==
    LET old == h[existing].obj
        h1 == Alloc(h, Cell("parts", EmptyObject, h[old.parts].items))
        h2 == Alloc(h1, Cell("artifact", SetKey(old, "parts", Len(h) + 1), <<>>))
        h3 == Write(h2, Len(h) + 1,
                    Cell("parts", EmptyObject, h2[Len(h) + 1].items \o update.parts))
    IN [heap |-> Write(h3, Len(h) + 2,
                       Cell("artifact",
                            SetKey(AppendedArtifact(ArtifactAt(h2, Len(h) + 2), update),
                                   "parts", Len(h) + 1), <<>>)),
        addr |-> Len(h) + 2]

\* Array.prototype.sort on an array of artifact references, in place
RECURSIVE InsertSortedRef(_, _, _)
InsertSortedRef(h, s, x) ==
    IF s = <<>> THEN <<x>>
    ELSE IF SortKey(h[Head(s)].obj) <= SortKey(h[x].obj)
         THEN <<Head(s)>> \o InsertSortedRef(h, Tail(s), x)
         ELSE <<x>> \o s

RECURSIVE SortRefs(_, _)
SortRefs(h, s) ==
    IF s = <<>> THEN <<>>
    ELSE InsertSortedRef(h, SortRefs(h, SubSeq(s, 1, Len(s) - 1)), s[Len(s)])

\* newTask.artifacts[slot] = <the object r.addr>
HeapPutSlot(r, arr, slot) ==
    Write(r.heap, arr,
          Cell("array", EmptyObject, [r.heap[arr].items EXCEPT ![slot] = r.addr]))

\* the artifact branch; nt is the address of newTask
HeapApplyArtifact(h, nt, update) ==
    LET t == h[nt].obj
        arr == Len(h) + 1
        h1 == Alloc(h, Cell("array", EmptyObject, h[t.artifacts].items))
        h2 == Write(h1, nt, Cell("task", SetKey(t, "artifacts", arr), <<>>))
        length == Len(h2[arr].items)
        existingIndex == IF Has(update, "index") THEN update.index ELSE -1
        namedIndex == IF Has(update, "name") /\ update.name # ""
                      THEN FindByName(ArtifactsAt(h2, arr), update.name) ELSE 0
    IN IF existingIndex >= 0 /\ existingIndex < length
       THEN IF Has(update, "append") /\ update.append = TRUE
            THEN HeapPutSlot(HeapAppend(h2, h2[arr].items[existingIndex + 1], update),
                             arr, existingIndex + 1)
            ELSE HeapPutSlot(HeapNewArtifact(h2, update), arr, existingIndex + 1)
       ELSE IF namedIndex > 0
            THEN HeapPutSlot(HeapNewArtifact(h2, update), arr, namedIndex)
            ELSE LET r == HeapNewArtifact(h2, update)
                     pushed == Append(h2[arr].items, r.addr)
                     h3 == Write(r.heap, arr, Cell("array", EmptyObject, pushed))
                 IN IF \E i \in 1..Len(pushed) : Has(h3[pushed[i]].obj, "index")
                    THEN Write(h3, arr, Cell("array", EmptyObject, SortRefs(h3, pushed)))
                    ELSE h3

\* the status branch; nt and nh are the addresses of newTask and newHistory
HeapApplyStatus(h, nt, nh, update, ts) ==
    LET t == h[nt].obj
        h1 == Alloc(h, Cell("status",
                            SetKey(Spread(h[t.status].obj, update), "timestamp", ts),
                            <<>>))
        h2 == Write(h1, nt, Cell("task", SetKey(t, "status", Len(h) + 1), <<>>))
    IN IF Has(update, "message") /\ update.message.role = "agent"
       THEN Write(h2, nh, Cell("history", EmptyObject,
                               Append(h2[nh].items, update.message)))
       ELSE h2

\* applyUpdateToTaskAndHistory(current, update) with current at the references c
HeapApply(h, c, update, ts) ==
    LET nt == Len(h) + 1
        nh == Len(h) + 2
        h1 == Alloc(h, h[c.task])
        h2 == Alloc(h1, h[c.history])
    IN [heap |-> IF IsTaskStatusUpdate(update)
                 THEN HeapApplyStatus(h2, nt, nh, update, ts)
                 ELSE IF IsArtifactUpdate(update)
                      THEN HeapApplyArtifact(h2, nt, update)
                      ELSE h2,
        cur |-> [task |-> nt, history |-> nh]]

\* updates of both shapes
HeapUpdates(k) ==
    ArtifactUpdates(k)
        \cup {[state |-> "working", message |-> [role |-> "agent", text |-> "a1"]],
              [state |-> "input-required", message |-> UserMessage(2)],
              [state |-> "completed"]}

\* currentData = applyUpdateToTaskAndHistory(currentData, update), with the
\* snapshot both as a value and as objects
HeapStep(update) ==
    /\ nApplied < MaxApply
    /\ snap' = ApplyUpdate(snap, update, now)
    /\ prevSnap' = snap
    /\ lastUpd' = <<update>>
    /\ nApplied' = nApplied + 1
    /\ heap' = HeapApply(heap, cur, update, now).heap
    /\ cur' = HeapApply(heap, cur, update, now).cur
    /\ UNCHANGED <<serverVars, now, insertedIdx, distinctIdx, envelope>>

NextHeap == \E update \in HeapUpdates(nApplied + 1) : HeapStep(update)

SpecHeap == InitApply /\ [][NextHeap]_vars

----------------------------------------------------------------------------
(* The server: requests run concurrently; each await of the code (a store   *)
(* load or save, a pull from the handler's generator) is one step.          *)

TaskIds == {"t1", "t2"}

\* the Redis key of the set of cancellation flags. Task records are stored
\* under their task id in the same Redis, so a task of this id shares the key.
FlagsKey == "active-cancellations"

Keys == TaskIds \cup {FlagsKey}
Slots == {"r1", "r2"}

\* request ids the envelope validation admits: null, numbers, strings
NullId == "null"
RequestIds == {NullId, "0", "7", "''", "'a'"}
\* ids of the operations that only test the id against null
RunningRequestIds == {NullId, "0"}

None == <<>>
Some(x) == <<x>>

FinalStates == {"completed", "failed", "canceled"}
StreamTerminalStates == {"completed", "failed", "canceled", "input-required"}

AgentMessage(text) == [role |-> "agent", text |-> text]

\* what the task handler may yield: any status or artifact update
HandlerUpdates(k) ==
    {[state |-> "working", message |-> AgentMessage("a1")],
     [state |-> "completed"],
     [state |-> "input-required", message |-> AgentMessage("a2")],
     [index |-> 0, parts |-> <<PartTexts[k]>>]}

\* what the task handler may throw
HandlerErrors == {[class |-> "Error", message |-> "boom"]}

\* what a failing store call throws
StoreError == [class |-> "Error", message |-> "store failed"]

\* what Redis answers a command on a key that holds a value of another type
WrongType == [class |-> "Error", message |-> "WRONGTYPE"]

\* A2AError.internalError / taskNotFound / invalidParams
A2AError(code, message) == [class |-> "A2AError", code |-> code, message |-> message]

NullIdError ==
    A2AError("InternalError", "Cannot create a success response with a null ID")

\* `Handler failed: ${error.message}`
FailureText(message) ==
    CASE message = "boom" -> "Handler failed: boom"
      [] message = "store failed" -> "Handler failed: store failed"
      [] OTHER -> "Handler failed: Cannot create a success response with a null ID"

\* createTaskFailureStatusUpdate(error)
CreateTaskFailureStatusUpdate(error) ==
    [state |-> "failed", message |-> AgentMessage(FailureText(error.message))]

\* normalizeError(error, reqId, taskId): the JSON-RPC error response
NormalizeError(error, reqId) ==
    LET a2aError ==
            IF error.class = "A2AError" THEN error
            ELSE IF error.class = "Error"
                 THEN A2AError("InternalError", error.message)
                 ELSE A2AError("InternalError", "An unknown error occurred.")
    IN [type |-> "error", id |-> reqId, code |-> a2aError.code,
        message |-> a2aError.message]

\* error.message of whatever was thrown: a string, or undefined for a thrown
\* value that is no Error (the response object taskSend throws)
MessageOf(thrown) ==
    IF thrown.class \in {"A2AError", "Error"}
    THEN [class |-> "string", message |-> thrown.message]
    ELSE [class |-> "undefined", message |-> "undefined"]

\* the router's catch: c.json(normalizeError(error.message, requestId, taskId), 200)
RouterCatch(thrown, reqId) == NormalizeError(MessageOf(thrown), reqId)

\* createSuccessResponse(id, result) for a non-null id
SuccessResponse(reqId, result) == [type |-> "result", id |-> reqId, result |-> result]

IdleRequest ==
    [pc |-> "idle", method |-> "-", task |-> "-", id |-> NullId, n |-> 0,
     loaded |-> None, data |-> None, upd |-> None, error |-> None,
     yields |-> 0, lastEventWasFinal |-> FALSE, exhausted |-> FALSE,
     context |-> None]

NoStream == [open |-> FALSE, events |-> <<>>, closed |-> FALSE,
             closeCalls |-> 0, closedByTransport |-> FALSE]

Init ==
    /\ store = [t \in Keys |-> None]
    /\ flags = {}
    /\ req = [r \in Slots |-> IdleRequest]
    /\ stream = [r \in Slots |-> NoStream]
    /\ now = 0
    /\ started = 0
    /\ returned = None
    /\ snap = [task |-> InitialTask("t1", 0), history |-> <<UserMessage(1)>>]
    /\ prevSnap = snap
    /\ lastUpd = <<>>
    /\ nApplied = 0
    /\ insertedIdx = {}
    /\ distinctIdx = TRUE
    /\ heap = InitialHeap
    /\ cur = InitialCur
    /\ envelope = <<>>

\* getCurrentTimestamp reads a clock that never runs backwards
Tick ==
    /\ now < MaxClock
    /\ now' = now + 1
    /\ returned' = None
    /\ UNCHANGED <<store, flags, req, stream, started, applyVars>>

Running(r) == req[r].pc # "idle"

\* the operation in slot r goes on as rq, its stream as st
Continue(r, rq, st) ==
    /\ req' = [req EXCEPT ![r] = rq]
    /\ stream' = [stream EXCEPT ![r] = st]
    /\ returned' = None

\* the operation rq in slot r returns with answer resp (None when it answers
\* nothing), leaving its stream as st; its locals are gone. What returned
\* keeps of them: whether the handler's sequence had ended, and the error
\* the catch block had caught.
Return(r, rq, resp, st) ==
    /\ req' = [req EXCEPT ![r] = IdleRequest]
    /\ stream' = [stream EXCEPT ![r] = NoStream]
    /\ returned' = Some([method |-> rq.method, task |-> rq.task, id |-> rq.id,
                         n |-> rq.n, resp |-> resp, stream |-> st,
                         exhausted |-> rq.exhausted, error |-> rq.error])

\* the router hands a validated request to the operation its method names; the
\* operation runs up to its first await, whose store call is issued at once.
\* Slots and task ids are interchangeable: a request takes the first free
\* slot, and the first request names t1.
Dispatched(r, method, t, id) ==
    /\ ~Running(r)
    /\ r = "r2" => Running("r1")
    /\ started < MaxRequests
    /\ (started = 0 /\ t \in TaskIds) => t = "t1"
    /\ started' = started + 1

NewRequest(method, t, id) ==
    [IdleRequest EXCEPT !.method = method, !.task = t, !.id = id, !.n = started + 1]

----------------------------------------------------------------------------
(* BunRedisTaskStore and BunRedisActiveCancellationsStore on one Redis *)

\* taskStore.load(t) is GET t: Redis refuses it while the key holds the set of
\* flags (an empty set is no key at all)
LoadThrows(t) == t = FlagsKey /\ flags # {}

\* taskStore.save(data) is SET data.task.id: it replaces whatever the key
\* holds, the set of flags included
FlagsAfterSave(t) == IF t = FlagsKey THEN {} ELSE flags

\* SADD and SREM on the key of the flags are refused while it holds a record
FlagsThrow(records) == records[FlagsKey] # None

----------------------------------------------------------------------------
(* loadOrCreateTaskAndHistory *)

\* the transition loadOrCreateTaskAndHistory applies to an existing snapshot
\* to which the message has been appended
ExistingTaskData(data, ts) ==
    IF data.task.status.state \in FinalStates
    THEN ApplyUpdate(data, [state |-> "submitted", message |-> Null], ts)
    ELSE IF data.task.status.state = "input-required"
         THEN ApplyUpdate(data, [state |-> "working"], ts)
         ELSE data

\* a creation that leaves the incoming message out of the history
LoadOrCreateData_ForgetsMessage(loaded, taskId, initialMessage, ts) ==
    IF loaded = None
    THEN [task |-> InitialTask(taskId, ts), history |-> <<>>]
    ELSE ExistingTaskData([task |-> loaded[1].task,
                           history |-> Append(loaded[1].history, initialMessage)], ts)

\* a reset that starts the history over
LoadOrCreateData_ResetDropsHistory(loaded, taskId, initialMessage, ts) ==
    IF loaded = None
    THEN [task |-> InitialTask(taskId, ts), history |-> <<initialMessage>>]
    ELSE IF loaded[1].task.status.state \in FinalStates
         THEN ApplyUpdate([task |-> loaded[1].task, history |-> <<initialMessage>>],
                          [state |-> "submitted", message |-> Null], ts)
         ELSE ExistingTaskData([task |-> loaded[1].task,
                                history |-> Append(loaded[1].history, initialMessage)],
                               ts)

\* a working task re-stamped as working
LoadOrCreateData_RestampsWorking(loaded, taskId, initialMessage, ts) ==
    IF loaded = None
    THEN [task |-> InitialTask(taskId, ts), history |-> <<initialMessage>>]
    ELSE LET data == [task |-> loaded[1].task,
                      history |-> Append(loaded[1].history, initialMessage)]
         IN IF data.task.status.state = "working"
            THEN ApplyUpdate(data, [state |-> "working"], ts)
            ELSE ExistingTaskData(data, ts)

\* the snapshot loadOrCreateTaskAndHistory builds from what it loaded
LoadOrCreateData(loaded, taskId, initialMessage, ts) ==
    IF loaded = None
    THEN [task |-> InitialTask(taskId, ts), history |-> <<initialMessage>>]
    ELSE ExistingTaskData([task |-> loaded[1].task,
                           history |-> Append(loaded[1].history, initialMessage)], ts)

\* tasks/send and tasks/sendSubscribe up to the save of loadOrCreateTaskAndHistory:
\* let data = await this.taskStore.load(taskId), and the transition it decides
LoadOrCreateLoad(r, method, t, id) ==
    /\ Dispatched(r, method, t, id)
    /\ IF LoadThrows(t)
       THEN Return(r, NewRequest(method, t, id),
                   IF method = "tasks/send"
                   THEN Some(RouterCatch(WrongType, id))
                   ELSE Some([type |-> "unhandled", id |-> id]),
                   NoStream)
       ELSE Continue(r, [NewRequest(method, t, id) EXCEPT
                           !.pc = "locsave",
                           !.loaded = store[t],
                           !.data = Some(LoadOrCreateData(store[t], t,
                                                          UserMessage(started + 1), now))],
                     NoStream)
    /\ UNCHANGED <<store, flags, now, applyVars>>

\* await this.taskStore.save(data) in loadOrCreateTaskAndHistory, and what
\* follows it: the handler is created, and for tasks/sendSubscribe the stream.
\* A failing save rejects taskSend (caught by the router); it rejects the
\* promise of taskSendSubscribe, which the router returned without awaiting.
LoadOrCreateSave(r, ok) ==
    /\ req[r].pc = "locsave"
    /\ LET rq == req[r]
       IN IF ok
          THEN /\ store' = [store EXCEPT ![rq.task] = rq.data]
               /\ Continue(r, [rq EXCEPT !.pc = "pull",
                                          !.context = Some(rq.data[1].task)],
                           [NoStream EXCEPT !.open = (rq.method = "tasks/sendSubscribe")])
          ELSE /\ Return(r, rq,
                         IF rq.method = "tasks/send"
                         THEN Some(RouterCatch(StoreError, rq.id))
                         ELSE Some([type |-> "unhandled", id |-> rq.id]),
                         NoStream)
               /\ UNCHANGED store
    /\ flags' = IF ok THEN FlagsAfterSave(req[r].task) ELSE flags
    /\ UNCHANGED <<now, started, applyVars>>

----------------------------------------------------------------------------
(* taskSend and taskSendSubscribe: draining the handler *)

\* an engine that applies an update and pulls the next without saving
HandlerYield_PullsAhead(r, update) ==
    /\ req[r].pc = "pull"
    /\ req[r].yields < MaxYields
    /\ Continue(r, [req[r] EXCEPT
                      !.loaded = None,
                      !.yields = @ + 1,
                      !.data = Some(ApplyUpdate(req[r].data[1], update, now))],
                stream[r])
    /\ UNCHANGED <<store, flags, now, started, applyVars>>

\* an engine that stops pulling once the task is flagged as cancelled
HandlerYield_StopsWhenFlagged(r, update) ==
    /\ req[r].pc = "pull"
    /\ req[r].yields < MaxYields
    /\ req[r].task \notin flags
    /\ Continue(r, [req[r] EXCEPT
                      !.pc = "save",
                      !.loaded = None,
                      !.yields = @ + 1,
                      !.upd = Some(update),
                      !.data = Some(ApplyUpdate(req[r].data[1], update, now))],
                stream[r])
    /\ UNCHANGED <<store, flags, now, started, applyVars>>

\* the handler yields the next update; it is applied before the save is awaited
HandlerYield(r, update) ==
    /\ req[r].pc = "pull"
    /\ req[r].yields < MaxYields
    /\ Continue(r, [req[r] EXCEPT
                      !.pc = "save",
                      !.loaded = None,
                      !.yields = @ + 1,
                      !.upd = Some(update),
                      !.data = Some(ApplyUpdate(req[r].data[1], update, now))],
                stream[r])
    /\ UNCHANGED <<store, flags, now, started, applyVars>>

\* the catch block up to its save: the failed status is applied
CatchFailure(rq, error) ==
    [rq EXCEPT !.pc = "failsave",
               !.loaded = None,
               !.error = Some(error),
               !.upd = None,
               !.data = Some(ApplyUpdate(rq.data[1],
                                         CreateTaskFailureStatusUpdate(error), now))]

\* the handler throws in place of yielding
HandlerRaise(r, error) ==
    /\ req[r].pc = "pull"
    /\ Continue(r, CatchFailure(req[r], error), stream[r])
    /\ UNCHANGED <<store, flags, now, started, applyVars>>

\* createTaskStatusEvent / createTaskArtifactEvent
StatusEvent(taskId, status, final) ==
    [id |-> taskId, status |-> status, final |-> final]

ArtifactEvent(taskId, artifact, final) ==
    [id |-> taskId, artifact |-> artifact, final |-> final]

\* currentData.task.artifacts?.find(...) ?? yieldValue
UpdatedArtifact(artifacts, update) ==
    LET hits == {i \in 1..Len(artifacts) :
                    \/ (Has(artifacts[i], "index") /\ Has(update, "index")
                          /\ artifacts[i].index = update.index)
                    \/ (Has(artifacts[i], "name") /\ artifacts[i].name # ""
                          /\ Has(update, "name") /\ artifacts[i].name = update.name)}
    IN IF hits = {} THEN update
       ELSE artifacts[CHOOSE i \in hits : \A j \in hits : i <= j]

\* events whose final flag leaves input-required out
EventOf_InputRequiredNotFinal(taskId, data, update) ==
    IF IsTaskStatusUpdate(update)
    THEN Some(StatusEvent(taskId, data.task.status,
                          data.task.status.state \in FinalStates))
    ELSE IF IsArtifactUpdate(update)
         THEN Some(ArtifactEvent(taskId,
                                 UpdatedArtifact(data.task.artifacts, update), FALSE))
         ELSE None

\* the event of a yielded update, None for an unknown update shape
EventOf(taskId, data, update) ==
    IF IsTaskStatusUpdate(update)
    THEN Some(StatusEvent(taskId, data.task.status,
                          data.task.status.state \in StreamTerminalStates))
    ELSE IF IsArtifactUpdate(update)
         THEN Some(ArtifactEvent(taskId,
                                 UpdatedArtifact(data.task.artifacts, update), FALSE))
         ELSE None

\* sendEvent(createSuccessResponse(req.id, event), stream)
SendEvent(st, reqId, event) ==
    [st EXCEPT !.events = Append(@, SuccessResponse(reqId, event))]

\* a teardown that closes without looking at stream.closed
Teardown_ClosesAgain(st, closed) ==
    [st EXCEPT !.closed = TRUE, !.closeCalls = @ + 1, !.closedByTransport = closed]

\* finally { if (!stream.closed) await stream.close() }; closed tells whether
\* the transport had closed the sink before the engine came here
Teardown(st, closed) ==
    IF ~closed
    THEN [st EXCEPT !.closed = TRUE, !.closeCalls = @ + 1]
    ELSE [st EXCEPT !.closed = TRUE, !.closedByTransport = TRUE]

\* a loop that goes on pulling after a final event
SaveUpdate_KeepsPulling(r, ok, closed) ==
    /\ req[r].pc = "save"
    /\ LET rq == req[r]
           event == EventOf(rq.task, rq.data[1], rq.upd[1])
       IN IF ~ok
          THEN /\ Continue(r, CatchFailure(rq, StoreError), stream[r])
               /\ UNCHANGED store
          ELSE /\ store' = [store EXCEPT ![rq.task] = rq.data]
               /\ IF rq.method = "tasks/send" \/ event = None
                  THEN Continue(r, [rq EXCEPT !.pc = "pull", !.upd = None,
                                              !.context = Some(rq.data[1].task)],
                                stream[r])
                  ELSE IF rq.id = NullId
                  THEN Continue(r, CatchFailure([rq EXCEPT
                                                   !.context = Some(rq.data[1].task)],
                                                NullIdError), stream[r])
                  ELSE Continue(r, [rq EXCEPT !.pc = "pull", !.upd = None,
                                              !.context = Some(rq.data[1].task),
                                              !.lastEventWasFinal = event[1].final],
                                SendEvent(stream[r], rq.id, event[1]))
    /\ flags' = IF ok THEN FlagsAfterSave(req[r].task) ELSE flags
    /\ UNCHANGED <<now, started, applyVars>>

\* await this.taskStore.save(currentData) inside the loop, and the rest of the
\* iteration: the handler's context is given the new task (context.task =
\* currentData.task), for tasks/sendSubscribe the event is written and a final
\* event breaks the loop and tears the stream down.
SaveUpdate(r, ok, closed) ==
    /\ req[r].pc = "save"
    /\ LET rq == req[r]
           event == EventOf(rq.task, rq.data[1], rq.upd[1])
       IN IF ~ok
          THEN /\ Continue(r, CatchFailure(rq, StoreError), stream[r])
               /\ UNCHANGED store
          ELSE /\ store' = [store EXCEPT ![rq.task] = rq.data]
               /\ IF rq.method = "tasks/send" \/ event = None
                  THEN Continue(r, [rq EXCEPT !.pc = "pull", !.upd = None,
                                              !.context = Some(rq.data[1].task)],
                                stream[r])
                  ELSE IF rq.id = NullId
                  THEN Continue(r, CatchFailure([rq EXCEPT
                                                   !.context = Some(rq.data[1].task)],
                                                NullIdError), stream[r])
                  ELSE IF event[1].final
                  THEN Return(r, rq, None,
                              Teardown(SendEvent(stream[r], rq.id, event[1]), closed))
                  ELSE Continue(r, [rq EXCEPT !.pc = "pull", !.upd = None,
                                              !.context = Some(rq.data[1].task),
                                              !.lastEventWasFinal = FALSE],
                                SendEvent(stream[r], rq.id, event[1]))
    /\ flags' = IF ok THEN FlagsAfterSave(req[r].task) ELSE flags
    /\ UNCHANGED <<now, started, applyVars>>

\* the handler's sequence is exhausted. tasks/send answers; tasks/sendSubscribe
\* forces a final event, applying completed first when the state is not
\* stream-terminal.
HandlerDone(r, closed) ==
    /\ req[r].pc = "pull"
    /\ LET rq == req[r]
           final == StatusEvent(rq.task, rq.data[1].task.status, TRUE)
       IN IF rq.method = "tasks/send"
          THEN Return(r, [rq EXCEPT !.exhausted = TRUE],
                      IF rq.id = NullId THEN None
                      ELSE Some(SuccessResponse(rq.id, rq.data[1])),
                      NoStream)
          ELSE IF rq.lastEventWasFinal
          THEN Return(r, rq, None, Teardown(stream[r], closed))
          ELSE IF rq.data[1].task.status.state \notin StreamTerminalStates
          THEN Continue(r, [rq EXCEPT
                              !.pc = "finsave",
                              !.loaded = None,
                              !.exhausted = TRUE,
                              !.data = Some(ApplyUpdate(rq.data[1],
                                                        [state |-> "completed"], now))],
                        stream[r])
          ELSE IF rq.id = NullId
          THEN Continue(r, CatchFailure([rq EXCEPT !.exhausted = TRUE], NullIdError),
                        stream[r])
          ELSE Return(r, [rq EXCEPT !.exhausted = TRUE], None,
                      Teardown(SendEvent(stream[r], rq.id, final), closed))
    /\ UNCHANGED <<store, flags, now, started, applyVars>>

\* await this.taskStore.save(currentData) of the forced completed status, and
\* the final event after it
ForcedSave(r, ok, closed) ==
    /\ req[r].pc = "finsave"
    /\ LET rq == req[r]
           final == StatusEvent(rq.task, rq.data[1].task.status, TRUE)
       IN IF ~ok
          THEN /\ Continue(r, CatchFailure(rq, StoreError), stream[r])
               /\ UNCHANGED store
          ELSE /\ store' = [store EXCEPT ![rq.task] = rq.data]
               /\ IF rq.id = NullId
                  THEN Continue(r, CatchFailure(rq, NullIdError), stream[r])
                  ELSE Return(r, rq, None,
                              Teardown(SendEvent(stream[r], rq.id, final), closed))
    /\ flags' = IF ok THEN FlagsAfterSave(req[r].task) ELSE flags
    /\ UNCHANGED <<now, started, applyVars>>

\* the save inside the catch block (a failure of it is logged and swallowed)
\* and what follows: taskSend throws the normalized error to the router;
\* taskSendSubscribe writes the failed status as final event, which throws out
\* of the catch block for a null request id, and tears the stream down.
FailureSave(r, ok, closed) ==
    /\ req[r].pc = "failsave"
    /\ LET rq == req[r]
           errorEvent == StatusEvent(rq.task, rq.data[1].task.status, TRUE)
       IN /\ store' = IF ok THEN [store EXCEPT ![rq.task] = rq.data] ELSE store
          /\ IF rq.method = "tasks/send"
             THEN Return(r, rq,
                         Some(RouterCatch([class |-> "response",
                                           response |-> NormalizeError(rq.error[1], rq.id)],
                                          rq.id)),
                         NoStream)
             ELSE Return(r, rq, None,
                         Teardown(IF rq.id = NullId THEN stream[r]
                                  ELSE SendEvent(stream[r], rq.id, errorEvent), closed))
    /\ flags' = IF ok THEN FlagsAfterSave(req[r].task) ELSE flags
    /\ UNCHANGED <<now, started, applyVars>>

----------------------------------------------------------------------------
(* taskGet and taskCancel *)

\* JavaScript !req.id: null, 0 and the empty string are falsy
Falsy(id) == id \in {NullId, "0", "''"}

\* a taskGet that answers with the task in place of the snapshot
TaskGet_AnswersTaskOnly(r, t, id) ==
    /\ Dispatched(r, "tasks/get", t, id)
    /\ LET data == store[t]
           resp == IF LoadThrows(t)
                   THEN RouterCatch(WrongType, id)
                   ELSE IF data = None
                   THEN RouterCatch(A2AError("TaskNotFound", "Task not found"), id)
                   ELSE IF Falsy(id)
                   THEN RouterCatch(A2AError("InvalidParams", "Missing request ID."), id)
                   ELSE SuccessResponse(id, data[1].task)
       IN Return(r, NewRequest("tasks/get", t, id), Some(resp), NoStream)
    /\ UNCHANGED <<store, flags, now, applyVars>>

\* taskGet: load, then the checks, then the answer
TaskGet(r, t, id) ==
    /\ Dispatched(r, "tasks/get", t, id)
    /\ LET data == store[t]
           resp == IF LoadThrows(t)
                   THEN RouterCatch(WrongType, id)
                   ELSE IF data = None
                   THEN RouterCatch(A2AError("TaskNotFound", "Task not found"), id)
                   ELSE IF Falsy(id)
                   THEN RouterCatch(A2AError("InvalidParams", "Missing request ID."), id)
                   ELSE SuccessResponse(id, data[1])
       IN Return(r, NewRequest("tasks/get", t, id), Some(resp), NoStream)
    /\ UNCHANGED <<store, flags, now, applyVars>>

CancelUpdate ==
    [state |-> "canceled", message |-> AgentMessage("Task canceled by request.")]

\* createSuccessResponse(req.id ?? null, result) as the router sees it
CancelResponse(id, result) ==
    IF id = NullId THEN RouterCatch(NullIdError, id) ELSE SuccessResponse(id, result)

\* taskCancel up to its save: load, the final-state check, the flag, the update
TaskCancelLoad(r, t, id) ==
    /\ Dispatched(r, "tasks/cancel", t, id)
    /\ LET rq == NewRequest("tasks/cancel", t, id)
           data == store[t]
       IN IF LoadThrows(t)
          THEN /\ Return(r, rq, Some(RouterCatch(WrongType, id)), NoStream)
               /\ UNCHANGED flags
          ELSE IF data = None
          THEN /\ Return(r, rq,
                    Some(RouterCatch(A2AError("TaskNotFound", "Task not found"), id)),
                    NoStream)
               /\ UNCHANGED flags
          ELSE IF data[1].task.status.state \in FinalStates
          THEN /\ Return(r, rq, Some(CancelResponse(id, data[1].task)), NoStream)
               /\ UNCHANGED flags
          ELSE IF FlagsThrow(store)
          THEN /\ Return(r, rq, Some(RouterCatch(WrongType, id)), NoStream)
               /\ UNCHANGED flags
          ELSE /\ flags' = flags \cup {t}
               /\ Continue(r, [rq EXCEPT
                                 !.pc = "csave", !.loaded = data,
                                 !.data = Some(ApplyUpdate(data[1], CancelUpdate, now))],
                           NoStream)
    /\ UNCHANGED <<store, now, applyVars>>

\* await this.taskStore.save(data) in taskCancel; the flag is deleted and the
\* answer built only when the save returned. The delete is refused when a
\* record has taken the key of the flags in the meantime.
TaskCancelSave(r, ok) ==
    /\ req[r].pc = "csave"
    /\ LET rq == req[r]
       IN IF ok /\ FlagsThrow(store)
          THEN /\ store' = [store EXCEPT ![rq.task] = rq.data]
               /\ UNCHANGED flags
               /\ Return(r, rq, Some(RouterCatch(WrongType, rq.id)), NoStream)
          ELSE IF ok
          THEN /\ store' = [store EXCEPT ![rq.task] = rq.data]
               /\ flags' = flags \ {rq.task}
               /\ Return(r, rq, Some(CancelResponse(rq.id, rq.data[1])), NoStream)
          ELSE /\ Return(r, rq, Some(RouterCatch(StoreError, rq.id)), NoStream)
               /\ UNCHANGED <<store, flags>>
    /\ UNCHANGED <<now, started, applyVars>>

\* methods the router's switch has no case for
OtherMethods == {"tasks/resubscribe"}

\* default: throw A2AError.methodNotFound(body.method), caught by the router
MethodNotFound(r, method, t, id) ==
    /\ Dispatched(r, method, t, id)
    /\ Return(r, NewRequest(method, t, id),
              Some(RouterCatch(A2AError("MethodNotFound", "Method not found"), id)),
              NoStream)
    /\ UNCHANGED <<store, flags, now, applyVars>>

----------------------------------------------------------------------------

\* the steps of the operations running in the slots S on the task ids Ids, with
\* a store whose calls succeed or fail as Answers allows
OperationsWith(S, Answers, Ids) ==
    \/ \E r \in S, t \in Ids, id \in RunningRequestIds :
          \E m \in {"tasks/send", "tasks/sendSubscribe"} : LoadOrCreateLoad(r, m, t, id)
    \/ \E r \in S, ok \in Answers : LoadOrCreateSave(r, ok)
    \/ \E r \in S : \E update \in HandlerUpdates(req[r].yields + 1) :
          HandlerYield(r, update)
    \/ \E r \in S, error \in HandlerErrors : HandlerRaise(r, error)
    \/ \E r \in S, ok \in Answers, closed \in BOOLEAN : SaveUpdate(r, ok, closed)
    \/ \E r \in S, closed \in BOOLEAN : HandlerDone(r, closed)
    \/ \E r \in S, ok \in Answers, closed \in BOOLEAN : ForcedSave(r, ok, closed)
    \/ \E r \in S, ok \in Answers, closed \in BOOLEAN : FailureSave(r, ok, closed)
    \/ \E r \in S, t \in Ids, id \in RequestIds : TaskGet(r, t, id)
    \/ \E r \in S, t \in Ids, id \in RunningRequestIds : TaskCancelLoad(r, t, id)
    \/ \E r \in S, ok \in Answers : TaskCancelSave(r, ok)
    \/ \E r \in S, m \in OtherMethods, id \in RunningRequestIds :
          MethodNotFound(r, m, "t1", id)

\* a store call may succeed or throw
Operations(S) == OperationsWith(S, BOOLEAN, TaskIds)

\* requests racing in every slot, within one reading of the clock
Next == Operations(Slots)

\* one request after the other, under a running clock
NextSeq == Tick \/ Operations({"r1"})

Spec == Init /\ [][Next]_vars

SpecSeq == Init /\ [][NextSeq]_vars

\* one request after the other with a store that answers every call. Every
\* await of a running request is settled sooner or later: the store answers,
\* and the handler, which yields at most MaxYields updates, yields, returns or
\* throws.
NextLive == Tick \/ OperationsWith({"r1"}, {TRUE}, TaskIds)

SpecLive == Init /\ [][NextLive]_vars /\ WF_vars(NextLive)

\* requests racing on a server that already holds task t1, created by an
\* earlier tasks/send whose handler returned without yielding. Clients choose
\* task ids freely: one of the ids in use is the key of the flags. Redis
\* answers every command, with a value or with a refusal.
PersistedTask(t) ==
    Some([task |-> InitialTask(t, 0), history |-> <<UserMessage(MaxRequests + 1)>>])

InitCross ==
    /\ store = [t \in Keys |-> IF t = "t1" THEN PersistedTask(t) ELSE None]
    /\ flags = {}
    /\ req = [r \in Slots |-> IdleRequest]
    /\ stream = [r \in Slots |-> NoStream]
    /\ now = 0
    /\ started = 0
    /\ returned = None
    /\ snap = [task |-> InitialTask("t1", 0), history |-> <<UserMessage(1)>>]
    /\ prevSnap = snap
    /\ lastUpd = <<>>
    /\ nApplied = 0
    /\ insertedIdx = {}
    /\ distinctIdx = TRUE
    /\ heap = InitialHeap
    /\ cur = InitialCur
    /\ envelope = <<>>

CrossIds == {"t1", FlagsKey}

NextCross == OperationsWith(Slots, {TRUE}, CrossIds)

SpecCross == InitCross /\ [][NextCross]_vars

----------------------------------------------------------------------------
(* Status updates on their own: every status update the engine applies or a *)
(* handler may yield, applied one after another under a running clock.      *)

\* a timestamp a handler's update may carry at run time, later than any
\* reading of the clock
CarriedTimestamp == MaxClock + 5

StatusUpdates ==
    {[state |-> "submitted", message |-> Null],
     [state |-> "working"],
     [state |-> "completed"],
     CancelUpdate,
     CreateTaskFailureStatusUpdate([class |-> "Error", message |-> "boom"]),
     [state |-> "working", message |-> AgentMessage("a1")],
     [state |-> "input-required", message |-> [role |-> "user", text |-> "u1"]],
     [state |-> "working", timestamp |-> 0],
     [state |-> "completed", timestamp |-> CarriedTimestamp]}

NextStatus == Tick \/ \E update \in StatusUpdates : ApplyStep(update)

SpecStatus == InitApply /\ [][NextStatus]_vars

----------------------------------------------------------------------------
(* The JSON-RPC router up to the dispatch: the decoded body of a POST is   *)
(* read, validated by isValidJsonRpcRequest and handed to the operation    *)
(* its method names. A JSON value is a record of its kind and its text.    *)

JsonString(text) == [type |-> "string", value |-> text]
JsonNumber(text) == [type |-> "number", value |-> text]
JsonUndefined == [type |-> "undefined", value |-> ""]
JsonNull == [type |-> "null", value |-> "null"]
JsonTrue == [type |-> "boolean", value |-> "true"]
JsonObject == [type |-> "object", value |-> "{}"]
JsonArray == [type |-> "array", value |-> "[]"]

\* JavaScript's typeof: null and arrays are objects
TypeOf(v) == IF v.type \in {"null", "object", "array"} THEN "object" ELSE v.type

\* a decoded body: the value itself and the four members the router reads;
\* a member that is missing reads as undefined
DecodedBody(kind, jsonrpc, method, id, params) ==
    [kind |-> kind, jsonrpc |-> jsonrpc, method |-> method, id |-> id,
     params |-> params]

VersionChoices == {JsonString("2.0"), JsonString("1.0"), JsonNumber("2"),
                   JsonUndefined}
MethodChoices == {JsonString("tasks/get"), JsonString("tasks/nope"),
                  JsonString(""), JsonNumber("1"), JsonUndefined}
IdChoices == {JsonNull, JsonString("a"), JsonNumber("0"), JsonTrue, JsonObject,
              JsonUndefined}
ParamsChoices == {JsonUndefined, JsonObject, JsonArray, JsonNull,
                  JsonString("p"), JsonNumber("1")}

Bodies ==
    {DecodedBody(JsonObject, v, m, i, p) :
        v \in VersionChoices, m \in MethodChoices, i \in IdChoices,
        p \in ParamsChoices}
    \cup {DecodedBody(k, JsonUndefined, JsonUndefined, JsonUndefined,
                      JsonUndefined) :
            k \in {JsonNull, JsonArray, JsonString("s"), JsonNumber("1")}}

\* isValidJsonRpcRequest(body)
isValidJsonRpcRequest(body) ==
    /\ TypeOf(body.kind) = "object"
    /\ body.kind # JsonNull
    /\ body.jsonrpc = JsonString("2.0")
    /\ TypeOf(body.method) = "string"
    /\ \/ body.id = JsonNull
       \/ TypeOf(body.id) = "string"
       \/ TypeOf(body.id) = "number"
    /\ \/ body.params = JsonUndefined
       \/ TypeOf(body.params) = "object"
       \/ body.params.type = "array"

RoutedMethods == {"tasks/send", "tasks/sendSubscribe", "tasks/get",
                  "tasks/cancel"}

\* what the POST handler does with a decoded body: reading body.id of null
\* throws and is answered with HTTP 400; a body the validator refuses is
\* answered with InvalidRequest; the others reach the switch over the method
RouterOutcome(body) ==
    IF body.kind = JsonNull THEN "badRequest"
    ELSE IF ~isValidJsonRpcRequest(body) THEN "invalidRequest"
    ELSE IF body.method.value \in RoutedMethods THEN "dispatched"
    ELSE "methodNotFound"

InitEnvelope ==
    /\ store = [t \in Keys |-> None]
    /\ flags = {}
    /\ req = [r \in Slots |-> IdleRequest]
    /\ stream = [r \in Slots |-> NoStream]
    /\ now = 0
    /\ started = 0
    /\ returned = None
    /\ snap = [task |-> InitialTask("t1", 0), history |-> <<UserMessage(1)>>]
    /\ prevSnap = snap
    /\ lastUpd = <<>>
    /\ nApplied = 0
    /\ insertedIdx = {}
    /\ distinctIdx = TRUE
    /\ heap = InitialHeap
    /\ cur = InitialCur
    /\ envelope \in {[body |-> b, outcome |-> "received"] : b \in Bodies}

\* the POST handler from the decoded body to the switch over the method
RouteEnvelope ==
    /\ envelope.outcome = "received"
    /\ envelope' = [envelope EXCEPT !.outcome = RouterOutcome(envelope.body)]
    /\ UNCHANGED <<store, flags, req, stream, now, started, returned, snap,
                   prevSnap, lastUpd, nApplied, insertedIdx, distinctIdx, heap,
                   cur>>

NextEnvelope == RouteEnvelope

SpecEnvelope == InitEnvelope /\ [][NextEnvelope]_vars

----------------------------------------------------------------------------
(* Properties of the update model (checked under SpecApply) *)

\* the last update hit an existing slot by its index
HitSlot ==
    /\ nApplied > 0
    /\ Has(lastUpd[1], "index")
    /\ lastUpd[1].index < Len(prevSnap.task.artifacts)

LastAppend == Has(lastUpd[1], "append") /\ lastUpd[1].append = TRUE

\* key k is the same in both objects: missing in both or equal in both
SameKey(a, b, k) == Has(a, k) = Has(b, k) /\ (Has(a, k) => a[k] = b[k])

OthersUnchanged(slot) ==
    /\ Len(snap.task.artifacts) = Len(prevSnap.task.artifacts)
    /\ \A j \in 1..Len(prevSnap.task.artifacts) :
          j # slot => snap.task.artifacts[j] = prevSnap.task.artifacts[j]

IndicesOf(artifacts) ==
    [i \in 1..Len(artifacts) |->
        IF Has(artifacts[i], "index") THEN artifacts[i].index ELSE -1]

\* C4: after artifact updates with pairwise distinct indices, applied in any
\* order, the artifact list holds exactly one artifact per inserted index and
\* is ordered ascending by index.
C4_DistinctIndicesKeptSorted ==
    (nApplied > 0 /\ distinctIdx) =>
        LET idx == IndicesOf(snap.task.artifacts)
        IN /\ Len(idx) = Cardinality(insertedIdx)
           /\ {idx[i] : i \in 1..Len(idx)} = insertedIdx
           /\ \A i \in 1..(Len(idx) - 1) : idx[i] < idx[i + 1]

\* C9: an update with append=true whose index hits an existing slot leaves in
\* that slot the existing parts followed by the update's parts, metadata merged
\* with the update's keys winning, lastChunk overwritten exactly when supplied,
\* description changed only when supplied (and set when supplied non-empty);
\* every other artifact is unchanged.
C9_AppendMergesIntoSlot ==
    (HitSlot /\ LastAppend) =>
        LET u == lastUpd[1]
            slot == u.index + 1
            old == prevSnap.task.artifacts[slot]
            new == snap.task.artifacts[slot]
            oldMeta == IF Has(old, "metadata") THEN old.metadata ELSE EmptyObject
        IN /\ OthersUnchanged(slot)
           /\ new.parts = old.parts \o u.parts
           /\ IF Has(u, "metadata")
              THEN /\ Has(new, "metadata")
                   /\ DOMAIN new.metadata = (DOMAIN oldMeta) \cup (DOMAIN u.metadata)
                   /\ \A k \in DOMAIN new.metadata :
                         new.metadata[k] = IF k \in DOMAIN u.metadata
                                           THEN u.metadata[k] ELSE oldMeta[k]
              ELSE SameKey(new, old, "metadata")
           /\ IF Has(u, "lastChunk")
              THEN Has(new, "lastChunk") /\ new.lastChunk = u.lastChunk
              ELSE SameKey(new, old, "lastChunk")
           /\ (~SameKey(new, old, "description") => Has(u, "description"))
           /\ (Has(u, "description") /\ u.description # ""
                  => Has(new, "description") /\ new.description = u.description)

\* C9 witness: an append hit a slot whose artifact had parts and metadata, with
\* an update that carries metadata and a description, next to another artifact.
C9_Witness ==
    /\ HitSlot /\ LastAppend
    /\ Len(prevSnap.task.artifacts) >= 2
    /\ Has(prevSnap.task.artifacts[lastUpd[1].index + 1], "metadata")
    /\ Has(lastUpd[1], "metadata") /\ lastUpd[1].metadata # EmptyObject
    /\ Has(lastUpd[1], "description")
    /\ Len(snap.task.artifacts[lastUpd[1].index + 1].parts) >= 2

\* C10: an update with append false or absent whose index hits an existing
\* slot replaces the slot with a copy of the update (the prior parts are gone);
\* the number of artifacts and every other artifact are unchanged.
C10_OverwriteReplacesSlot ==
    (HitSlot /\ ~LastAppend) =>
        LET u == lastUpd[1]
            slot == u.index + 1
        IN /\ OthersUnchanged(slot)
           /\ snap.task.artifacts[slot] = u
           /\ snap.task.artifacts[slot].parts = u.parts

\* C10 witness: an overwrite with append=false hit a slot that held other
\* parts, next to another artifact.
C10_Witness ==
    /\ HitSlot /\ ~LastAppend
    /\ Len(prevSnap.task.artifacts) >= 2
    /\ prevSnap.task.artifacts[lastUpd[1].index + 1].parts # lastUpd[1].parts
    /\ Has(lastUpd[1], "append")

----------------------------------------------------------------------------
(* Properties of the server *)

\* C1: the persisted history of every task only grows: whatever is persisted
\* next has the history persisted before as a prefix, whichever operations
\* run and however their loads and saves interleave.
C1_HistoryOnlyGrows ==
    [][\A t \in TaskIds :
          store[t] # None =>
              /\ store'[t] # None
              /\ IsPrefix(store[t][1].history, store'[t][1].history)]_vars

\* a tasks/sendSubscribe call that reached streaming has just returned
StreamReturned ==
    /\ returned # None
    /\ returned[1].method = "tasks/sendSubscribe"
    /\ returned[1].stream.open

FinalEvents(events) == {i \in 1..Len(events) : events[i].result.final}

\* C2: a tasks/sendSubscribe call that reached streaming, whatever its request
\* id and its exit path, has written exactly one event with final=true to the
\* stream that is closed when it returns.
C2_ExactlyOneFinalEvent ==
    StreamReturned =>
        LET st == returned[1].stream
        IN /\ st.closed
           /\ Cardinality(FinalEvents(st.events)) = 1

\* C3: when tasks/sendSubscribe returns, on any exit path, its stream is
\* closed and the engine has closed it at most once: once when the stream was
\* still open at teardown, not at all when it was closed already; no stream of
\* a call still running has been closed by the engine.
C3_StreamClosedOnce ==
    /\ \A r \in Slots : stream[r].closeCalls = 0
    /\ StreamReturned =>
          LET st == returned[1].stream
          IN /\ st.closed
             /\ st.closeCalls = IF st.closedByTransport THEN 0 ELSE 1

\* C3 witness: a streaming call returned after a failure, its teardown finding
\* the stream closed already.
C3_Witness ==
    /\ StreamReturned
    /\ returned[1].stream.closedByTransport
    /\ Len(returned[1].stream.events) >= 1
    /\ returned[1].stream.events[Len(returned[1].stream.events)].result.status.state
          = "failed"

\* loadOrCreateTaskAndHistory has just returned to the operation in slot r
JustLoaded(r) == req[r].pc = "pull" /\ req[r].yields = 0

\* the save of loadOrCreateTaskAndHistory returns in this step
LoadOrCreateReturns(r) == req[r].pc = "locsave" /\ req'[r].pc = "pull"

\* C5: loadOrCreate for a task id without a persisted record persists and
\* returns a snapshot of state submitted, status message null, no artifacts
\* and the history [incomingMessage].
C5_NewTaskCreated ==
    [][\A r \in Slots :
          (LoadOrCreateReturns(r) /\ req[r].loaded = None) =>
              LET d == req'[r].data[1]
              IN /\ store'[req[r].task] = Some(d)
                 /\ d.task.status.state = "submitted"
                 /\ d.task.status.message = Null
                 /\ d.task.artifacts = <<>>
                 /\ d.history = <<UserMessage(req[r].n)>>]_vars

\* C5 witness: loadOrCreate returned for an unseen task id and its snapshot
\* is the persisted one.
C5_Witness ==
    \E r \in Slots :
        /\ JustLoaded(r)
        /\ req[r].loaded = None
        /\ store[req[r].task] = req[r].data

\* C6: loadOrCreate with message m on a task persisted as completed, failed or
\* canceled persists and returns state submitted, status message null, and
\* the previous history followed by m.
C6_FinalTaskReset ==
    [][\A r \in Slots :
          (/\ LoadOrCreateReturns(r)
           /\ req[r].loaded # None
           /\ req[r].loaded[1].task.status.state \in FinalStates) =>
              LET d == req'[r].data[1]
              IN /\ store'[req[r].task] = Some(d)
                 /\ d.task.status.state = "submitted"
                 /\ d.task.status.message = Null
                 /\ d.history = Append(req[r].loaded[1].history,
                                       UserMessage(req[r].n))]_vars

\* C6 witness: loadOrCreate returned for a task that was persisted in a final
\* state with a status message and a history of two entries.
C6_Witness ==
    \E r \in Slots :
        /\ JustLoaded(r)
        /\ req[r].loaded # None
        /\ req[r].loaded[1].task.status.state \in FinalStates
        /\ req[r].loaded[1].task.status.message # Null
        /\ Len(req[r].loaded[1].history) >= 2
        /\ store[req[r].task] = req[r].data

\* C7: loadOrCreate with message m on a task persisted as working leaves the
\* whole status (state, message, timestamp) as it was and persists the
\* previous history followed by m.
C7_WorkingTaskUntouched ==
    [][\A r \in Slots :
          (/\ LoadOrCreateReturns(r)
           /\ req[r].loaded # None
           /\ req[r].loaded[1].task.status.state = "working") =>
              LET d == req'[r].data[1]
              IN /\ store'[req[r].task] = Some(d)
                 /\ d.task.status = req[r].loaded[1].task.status
                 /\ d.history = Append(req[r].loaded[1].history,
                                       UserMessage(req[r].n))]_vars

\* C7 witness: loadOrCreate returned for a task persisted as working with a
\* status message, at a later reading of the clock than the status carries.
C7_Witness ==
    \E r \in Slots :
        /\ JustLoaded(r)
        /\ req[r].loaded # None
        /\ req[r].loaded[1].task.status.state = "working"
        /\ req[r].loaded[1].task.status.message # Null
        /\ req[r].loaded[1].task.status.timestamp < now
        /\ store[req[r].task] = req[r].data

\* C8: loadOrCreate with message m on a task persisted as input-required
\* persists state working, leaves the status message as it was, and appends
\* m and nothing else to the history.
C8_InputRequiredResumes ==
    [][\A r \in Slots :
          (/\ LoadOrCreateReturns(r)
           /\ req[r].loaded # None
           /\ req[r].loaded[1].task.status.state = "input-required") =>
              LET d == req'[r].data[1]
              IN /\ store'[req[r].task] = Some(d)
                 /\ d.task.status.state = "working"
                 /\ d.task.status.message = req[r].loaded[1].task.status.message
                 /\ d.history = Append(req[r].loaded[1].history,
                                       UserMessage(req[r].n))]_vars

\* C8 witness: loadOrCreate returned for a task persisted as input-required
\* whose status carried an agent message.
C8_Witness ==
    \E r \in Slots :
        /\ JustLoaded(r)
        /\ req[r].loaded # None
        /\ req[r].loaded[1].task.status.state = "input-required"
        /\ req[r].loaded[1].task.status.message.role = "agent"
        /\ store[req[r].task] = req[r].data

\* a request of method m returns in this step
Returns(m) == returned' # None /\ returned'[1].method = m

\* the request returning in this step ran in no slot: it returns in the step
\* that dispatched it
ReturnsAtOnce == \A r \in Slots : req[r].pc = "idle" \/ req[r].n # returned'[1].n

\* C11: tasks/cancel on a task persisted as completed, failed or canceled
\* answers with a success result carrying the task as persisted, writes
\* nothing to the store and leaves the cancellation flags as they are.
C11_CancelOfFinalTaskIsNoOp ==
    [][(/\ Returns("tasks/cancel")
        /\ ReturnsAtOnce
        /\ store[returned'[1].task] # None
        /\ store[returned'[1].task][1].task.status.state \in FinalStates) =>
           /\ returned'[1].resp =
                 Some(SuccessResponse(returned'[1].id,
                                      store[returned'[1].task][1].task))
           /\ store' = store
           /\ flags' = flags]_vars

\* C12: tasks/cancel on a task persisted as submitted, working or
\* input-required, its save answered by the store (the step that clears the
\* flag), persists state canceled with the fixed agent message as status
\* message and as new last history entry, and answers with a success result.
C12_CancelPersistsCanceled ==
    [][\A r \in Slots :
          (/\ req[r].pc = "csave"
           /\ Returns("tasks/cancel")
           /\ returned'[1].n = req[r].n
           /\ req[r].task \notin flags') =>
              LET t == req[r].task
                  before == req[r].loaded[1]
              IN /\ store'[t] # None
                 /\ store'[t][1].task.status.state = "canceled"
                 /\ store'[t][1].task.status.message = CancelUpdate.message
                 /\ store'[t][1].history = Append(before.history, CancelUpdate.message)
                 /\ returned'[1].resp = Some(SuccessResponse(req[r].id, store'[t][1]))]_vars

\* C13: whenever taskCancel has finished, whether its save succeeded or
\* failed, the task id is not in the cancellation-flag set.
C13_FlagClearedAfterCancel ==
    (returned # None /\ returned[1].method = "tasks/cancel") =>
        returned[1].task \notin flags

\* C18: a valid request whose method the router does not know is answered
\* with an error of kind MethodNotFound keyed to the request id, and neither
\* the store nor the cancellation flags change.
C18_UnknownMethodNotFound ==
    [][(returned' # None /\ returned'[1].method \in OtherMethods) =>
           /\ returned'[1].resp # None
           /\ returned'[1].resp[1].type = "error"
           /\ returned'[1].resp[1].code = "MethodNotFound"
           /\ returned'[1].resp[1].id = returned'[1].id
           /\ store' = store
           /\ flags' = flags]_vars

\* C19: tasks/get and tasks/cancel for a task id without a persisted record
\* are answered with an error of kind TaskNotFound, create no record and set
\* no cancellation flag.
C19_MissingTaskNotFound ==
    [][(/\ Returns("tasks/get") \/ Returns("tasks/cancel")
        /\ store[returned'[1].task] = None) =>
           /\ returned'[1].resp # None
           /\ returned'[1].resp[1].type = "error"
           /\ returned'[1].resp[1].code = "TaskNotFound"
           /\ store' = store
           /\ flags' = flags]_vars

C14_ForcedFinalization ==
    (/\ StreamReturned
     /\ returned[1].exhausted
     /\ returned[1].error # Some(StoreError)) =>
        LET st == returned[1].stream
            t == returned[1].task
        IN /\ store[t] # None
           /\ store[t][1].task.status.state = "completed"
           /\ Len(st.events) >= 1
           /\ FinalEvents(st.events) = {Len(st.events)}
           /\ Has(st.events[Len(st.events)].result, "status")
           /\ st.events[Len(st.events)].result.status.state = "completed"

----------------------------------------------------------------------------
(* Properties of status updates (checked under SpecStatus) *)

\* C15: every status update applied sets status.timestamp to the reading of
\* the clock at that moment, whatever timestamp the update carries, so that
\* the timestamp after it is not earlier than the timestamp before it.
C15_TimestampSetToNow ==
    [][(nApplied' = nApplied + 1 /\ IsTaskStatusUpdate(lastUpd'[1])) =>
           /\ snap'.task.status.timestamp = now
           /\ snap'.task.status.timestamp >= snap.task.status.timestamp]_vars

\* C15 witness: after the clock has advanced, a status update carrying a
\* timestamp of its own was applied to a status stamped earlier.
C15_Witness ==
    /\ nApplied >= 2
    /\ Has(lastUpd[1], "timestamp")
    /\ lastUpd[1].timestamp # now
    /\ prevSnap.task.status.timestamp < now
    /\ snap.task.status.timestamp = now

----------------------------------------------------------------------------
(* Properties of the update function over objects (checked under SpecHeap) *)

\* the last update was an append that hit an artifact of the snapshot passed in
AppendHitExisting ==
    /\ lastUpd # <<>>
    /\ IsArtifactUpdate(lastUpd[1])
    /\ Has(lastUpd[1], "append") /\ lastUpd[1].append = TRUE
    /\ Has(lastUpd[1], "index")
    /\ lastUpd[1].index < Len(prevSnap.task.artifacts)

\* C16: applyUpdateToTaskAndHistory never mutates its input. Every object and
\* array that existed before the call (the task, its status, its artifacts
\* array, each artifact and its parts array, the history array, of this and of
\* every earlier snapshot) holds after the call what it held before; the
\* snapshot passed in still reads as it did, and the returned references read
\* as the updated snapshot.
C16_InputNeverMutated ==
    [][nApplied' = nApplied + 1 =>
          /\ \A a \in 1..Len(heap) : heap'[a] = heap[a]
          /\ Deref(heap', cur) = snap
          /\ Deref(heap', cur') = snap']_vars

\* an append has merged parts into an artifact the input snapshot held
C16_Witness ==
    /\ AppendHitExisting
    /\ Len(heap) > Len(InitialHeap)
    /\ Len(snap.task.artifacts) >= 1
    /\ Len(snap.task.artifacts[lastUpd[1].index + 1].parts) >= 2
    /\ cur # InitialCur

----------------------------------------------------------------------------
(* Properties of cancellation *)

\* C17: a cancel request never stops a running handler from being drained:
\* whatever the cancellation flags and the persisted state say, the engine
\* pulls the handler's next update, applies it to its snapshot, and persists
\* the snapshot when the store answers, one update after the other.
C17_CancelDoesNotInterrupt ==
    [][\A r \in Slots :
          /\ (req[r].pc = "pull" /\ req[r].yields < MaxYields) =>
                ENABLED (\E update \in HandlerUpdates(req[r].yields + 1) :
                            HandlerYield(r, update))
          /\ (req[r].pc = "pull" /\ req'[r].pc = "save") =>
                /\ req'[r].yields = req[r].yields + 1
                /\ req'[r].data =
                      Some(ApplyUpdate(req[r].data[1], req'[r].upd[1], now))
          /\ (req[r].pc = "save" /\ req'[r].pc = "pull") =>
                store'[req[r].task] = req[r].data]_vars

\* C17 witness: a tasks/cancel for the task of a running handler has set the
\* flag and awaits its save, having loaded the task as it was before the
\* handler's first update; since then the engine has pulled the handler's
\* second update and persisted it.
C17_Witness ==
    \E r \in Slots, c \in Slots :
        /\ req[c].pc = "csave"
        /\ req[c].task = req[r].task
        /\ req[c].task \in flags
        /\ req[c].loaded[1].task.status.state = "submitted"
        /\ req[c].loaded[1].task.artifacts = <<>>
        /\ req[r].pc = "pull"
        /\ req[r].yields = 2
        /\ store[req[r].task] = req[r].data

----------------------------------------------------------------------------
(* Properties of the failure paths *)

\* the request in slot r awaits the save of its catch block, entered because
\* the handler threw
HandlerRaised(r, method) ==
    /\ req[r].pc = "failsave"
    /\ req[r].method = method
    /\ req[r].error # None
    /\ req[r].error[1] \in HandlerErrors

\* the failed status of the catch block has been applied to the snapshot
FailedStatusApplied(data, error) ==
    /\ data.task.status.state = "failed"
    /\ data.task.status.message = AgentMessage(FailureText(error.message))
    /\ data.history # <<>>
    /\ data.history[Len(data.history)] = data.task.status.message

\* the step is the save of the catch block of slot r: the snapshot is written
\* when the store answers and nothing is written when it does not
FailureSaveAttempted(r) ==
    \/ store' = [store EXCEPT ![req[r].task] = req[r].data]
    \/ store' = store

\* C21: when the handler raises while tasks/send drains it, a failed status
\* whose agent message carries the failure's message is applied (and is the
\* last history entry), its save is attempted, and the caller is answered with
\* the normalized original failure, an error that keeps the failure's message,
\* whether or not that save succeeded; no success result is returned.
C21_SendFailureKeepsOriginal ==
    [][\A r \in Slots :
          (HandlerRaised(r, "tasks/send") /\ Returns("tasks/send")
              /\ returned'[1].n = req[r].n) =>
             /\ FailedStatusApplied(req[r].data[1], req[r].error[1])
             /\ FailureSaveAttempted(r)
             /\ returned'[1].resp = Some(NormalizeError(req[r].error[1], req[r].id))
             /\ returned'[1].resp[1].type = "error"]_vars

\* C22: when the handler raises while tasks/sendSubscribe drains it, a failed
\* status is applied, its save is attempted, and whether or not that save
\* succeeded the failed status is written to the stream as a final status
\* event, after which the stream is closed.
C22_StreamFailureEmitsFinal ==
    [][\A r \in Slots :
          (HandlerRaised(r, "tasks/sendSubscribe") /\ Returns("tasks/sendSubscribe")
              /\ returned'[1].n = req[r].n) =>
             /\ FailedStatusApplied(req[r].data[1], req[r].error[1])
             /\ FailureSaveAttempted(r)
             /\ returned'[1].stream.events =
                   Append(stream[r].events,
                          SuccessResponse(req[r].id,
                                          StatusEvent(req[r].task,
                                                      req[r].data[1].task.status, TRUE)))
             /\ returned'[1].stream.closed]_vars

----------------------------------------------------------------------------
(* Properties of the events of a stream *)

\* every event written so far: to the streams still open and to the stream of
\* the request that has just returned
StreamsWritten ==
    {stream[r].events : r \in Slots}
        \cup (IF returned # None THEN {returned[1].stream.events} ELSE {})

FinalFlagRight(event) ==
    /\ Has(event, "status") =>
          (event.final <=> event.status.state \in StreamTerminalStates)
    /\ Has(event, "artifact") => ~event.final

\* C23: every status event of tasks/sendSubscribe has final = true exactly when
\* the state it carries is completed, failed, canceled or input-required, and
\* every artifact event has final = false.
C23_FinalFlagOfEvents ==
    \A events \in StreamsWritten :
        \A i \in 1..Len(events) : FinalFlagRight(events[i].result)

\* a stream has ended with an artifact event followed by the event of an
\* input-required status
C23_Witness ==
    /\ returned # None
    /\ Len(returned[1].stream.events) = 2
    /\ Has(returned[1].stream.events[1].result, "artifact")
    /\ ~returned[1].stream.events[1].result.final
    /\ Has(returned[1].stream.events[2].result, "status")
    /\ returned[1].stream.events[2].result.status.state = "input-required"
    /\ returned[1].stream.events[2].result.final

\* C24: once an event with final = true has been written, the request pulls
\* nothing more from the handler, applies and persists nothing more and writes
\* nothing more. A request that can still take a step has written no final
\* event, and the final event of a stream that has ended is its last event.
C24_NothingAfterFinalEvent ==
    /\ \A r \in Slots : \A i \in 1..Len(stream[r].events) :
          ~stream[r].events[i].result.final
    /\ returned # None =>
          \A i \in 1..(Len(returned[1].stream.events) - 1) :
              ~returned[1].stream.events[i].result.final

\* the loop has written a final event after a single pull, with the handler
\* able to yield more
C24_Witness ==
    /\ returned # None
    /\ returned[1].method = "tasks/sendSubscribe"
    /\ ~returned[1].exhausted
    /\ returned[1].error = None
    /\ Len(returned[1].stream.events) = 1
    /\ returned[1].stream.events[1].result.final
    /\ MaxYields > 1

----------------------------------------------------------------------------
(* Progress (checked under SpecLive) *)

\* the answer a request has returned with is a result or a protocol error
\* keyed to the request, or its stream is closed
Resolved(x) ==
    IF x.method = "tasks/sendSubscribe"
    THEN x.stream.closed
    ELSE /\ x.resp # None
         /\ x.resp[1].type \in {"result", "error"}
         /\ x.resp[1].id = x.id

\* the n-th request is running
RunningRequest(n) == \E r \in Slots : Running(r) /\ req[r].n = n

\* C25: with a handler that yields finitely many updates and a store that
\* answers every call, every accepted request, whatever its request id,
\* eventually returns, and what it returns with is a result or a well-formed
\* protocol error, or for a stream a closed stream.
C25_EveryRequestResolves ==
    /\ [](returned # None => Resolved(returned[1]))
    /\ \A n \in 1..MaxRequests :
          RunningRequest(n) ~> (returned # None /\ returned[1].n = n)

----------------------------------------------------------------------------
(* Properties of requests on different tasks (checked under SpecCross) *)

\* the task id of the request that takes this step
StepTask ==
    IF returned' # None THEN returned'[1].task
    ELSE req'[CHOOSE r \in Slots : req'[r] # req[r]].task

\* C26: requests for different task ids are independent. A step of a request
\* on one task id, in any interleaving with a request on another, changes
\* neither the persisted record nor the cancellation flag of any other task id.
C26_OtherTasksUntouched ==
    [][\A t \in Keys :
          (store'[t] # store[t] \/ ((t \in flags') # (t \in flags))) =>
              t = StepTask]_vars

----------------------------------------------------------------------------
(* Properties of requests with a null id *)

\* C27: tasks/send with a request id of null is a no-op. No step of such a
\* request changes the persisted records or brings it to pull from the
\* handler, and it returns without a response.
C27_NullIdSendIsNoOp ==
    [][/\ \A r \in Slots :
             (req'[r] # req[r] /\ req'[r].method = "tasks/send"
                 /\ req'[r].id = NullId) =>
                (store' = store /\ req'[r].pc # "pull")
       /\ (Returns("tasks/send") /\ returned'[1].id = NullId) =>
             (store' = store /\ returned'[1].resp = None)]_vars

----------------------------------------------------------------------------
(* Further properties of the update model (checked under SpecApply) *)

\* C28: in every snapshot reached by applying artifact updates, no two
\* artifacts of the list carry the same index and no two carry the same name.
C28_ArtifactsUnique ==
    LET artifacts == snap.task.artifacts
    IN \A i, j \in 1..Len(artifacts) :
          i < j =>
             /\ ~(Has(artifacts[i], "index") /\ Has(artifacts[j], "index")
                    /\ artifacts[i].index = artifacts[j].index)
             /\ ~(Has(artifacts[i], "name") /\ Has(artifacts[j], "name")
                    /\ artifacts[i].name = artifacts[j].name)

\* C29: after every artifact update, an insertion or a replacement by index
\* or by name, a list in which some artifact carries an index is sorted
\* ascending by index, an absent index counting as 0.
C29_SortedAfterEveryUpdate ==
    LET artifacts == snap.task.artifacts
    IN (nApplied > 0 /\ \E i \in 1..Len(artifacts) : Has(artifacts[i], "index")) =>
          \A i \in 1..(Len(artifacts) - 1) :
              SortKey(artifacts[i]) <= SortKey(artifacts[i + 1])

\* the last update missed every slot by index and found its target by name
HitByName ==
    /\ nApplied > 0
    /\ ~HitSlot
    /\ Has(lastUpd[1], "name")
    /\ FindByName(prevSnap.task.artifacts, lastUpd[1].name) > 0

\* C30: an update with append=true whose target is found by name, its index
\* being absent or outside the array, leaves in the target's slot the existing
\* parts followed by the update's parts.
C30_AppendByNameMerges ==
    (HitByName /\ LastAppend) =>
        LET slot == FindByName(prevSnap.task.artifacts, lastUpd[1].name)
        IN /\ Len(snap.task.artifacts) = Len(prevSnap.task.artifacts)
           /\ snap.task.artifacts[slot].parts =
                 prevSnap.task.artifacts[slot].parts \o lastUpd[1].parts

----------------------------------------------------------------------------
(* Further properties of status updates (checked under SpecStatus) *)

\* C31: status and history move together. Whenever applying a status update
\* leaves the merged status with a message of role agent, that message is
\* appended as the new last entry of history; when the merged message is
\* absent, null or of role user, history is left as it is.
C31_StatusAndHistoryTogether ==
    [][(nApplied' = nApplied + 1 /\ IsTaskStatusUpdate(lastUpd'[1])) =>
          IF Has(snap'.task.status, "message")
                /\ snap'.task.status.message.role = "agent"
          THEN snap'.history = Append(snap.history, snap'.task.status.message)
          ELSE snap'.history = snap.history]_vars

----------------------------------------------------------------------------
(* Properties of the order of updates within a request *)

\* the step persists the snapshot of the update slot r has applied, and for a
\* stream writes that update's event behind the events written before
PersistsAndWrites(r, events) ==
    /\ store' = [store EXCEPT ![req[r].task] = req[r].data]
    /\ events =
          IF req[r].method = "tasks/sendSubscribe"
          THEN Append(stream[r].events,
                      SuccessResponse(req[r].id,
                                      EventOf(req[r].task, req[r].data[1],
                                              req[r].upd[1])[1]))
          ELSE stream[r].events

\* C32: within one tasks/send or tasks/sendSubscribe request the k-th update is
\* applied and persisted before the next is pulled, the handler's view of the
\* task when it is asked for the next update is the snapshot persisted last,
\* and the event of an update is written when its snapshot has been persisted,
\* behind the events of the updates before it.
C32_UpdatesInOrder ==
    [][\A r \in Slots :
          \* a pull applies the update to the snapshot persisted last
          /\ req'[r].yields > req[r].yields =>
                /\ req[r].pc = "pull"
                /\ req'[r].pc = "save"
                /\ req'[r].yields = req[r].yields + 1
                /\ req[r].context = Some(req[r].data[1].task)
                /\ req'[r].data = Some(ApplyUpdate(req[r].data[1], req'[r].upd[1], now))
                /\ stream'[r] = stream[r]
                /\ store' = store
          \* the next pull is possible only after the save
          /\ (req[r].pc = "save" /\ req'[r].pc = "pull") =>
                /\ PersistsAndWrites(r, stream'[r].events)
                /\ req'[r].data = req[r].data
                /\ req'[r].context = Some(req[r].data[1].task)
          \* a final event ends the request in the step of its save
          /\ (req[r].pc = "save" /\ returned' # None /\ returned'[1].n = req[r].n) =>
                PersistsAndWrites(r, returned'[1].stream.events)]_vars

\* a stream has persisted two updates and written their two events, and the
\* handler is asked again
C32_Witness ==
    \E r \in Slots :
        /\ req[r].pc = "pull"
        /\ req[r].method = "tasks/sendSubscribe"
        /\ req[r].yields = 2
        /\ Len(stream[r].events) = 2
        /\ store[req[r].task] = req[r].data
        /\ req[r].context = Some(req[r].data[1].task)

----------------------------------------------------------------------------
(* Properties of forced finalization under racing requests *)

\* the persisted state of task t is terminal
PersistedTerminal(t) ==
    store[t] # None /\ store[t][1].task.status.state \in FinalStates

\* C33: forced finalization leaves a terminal task alone. When the handler's
\* sequence has ended and the task's persisted state is already terminal (for
\* example canceled by a tasks/cancel during the stream), the stream does not
\* overwrite it with completed, and the final event it writes reports the
\* state the task ends in.
C33_ForcedFinalizationKeepsTerminal ==
    [][\A r \in Slots :
          \* the sequence ends on a terminal task: no completed is applied
          /\ (/\ req[r].method = "tasks/sendSubscribe"
              /\ req[r].pc = "pull"
              /\ req'[r].exhausted
              /\ PersistedTerminal(req[r].task)) =>
                 req'[r].pc # "finsave"
          \* and none is written over a terminal state
          /\ (/\ req[r].method = "tasks/sendSubscribe"
              /\ req[r].exhausted
              /\ req[r].error = None
              /\ req[r].pc = "finsave"
              /\ PersistedTerminal(req[r].task)) =>
              /\ store'[req[r].task] = store[req[r].task]
              /\ (returned' # None /\ returned'[1].n = req[r].n) =>
                    LET events == returned'[1].stream.events
                    IN /\ events # <<>>
                       /\ events[Len(events)].result.status.state =
                             store'[req[r].task][1].task.status.state]_vars

----------------------------------------------------------------------------
(* Properties of the lifecycle *)

\* the edges of the lifecycle graph
Lifecycle ==
    {<<"submitted", "working">>}
        \cup {<<"working", s>> : s \in StreamTerminalStates}
        \cup {<<"input-required", "working">>}
        \cup {<<"input-required", s>> : s \in FinalStates}
        \cup {<<s, "submitted">> : s \in FinalStates}

\* C34: every change of a task's persisted state follows the lifecycle graph:
\* submitted to working; working to completed, failed, canceled or
\* input-required; input-required to working or to a terminal state; completed,
\* failed or canceled to submitted. No other change of state is persisted.
C34_LifecycleGraph ==
    [][\A t \in Keys :
          (/\ store[t] # None
           /\ store'[t] # None
           /\ store'[t][1].task.status.state # store[t][1].task.status.state) =>
              <<store[t][1].task.status.state, store'[t][1].task.status.state>>
                  \in Lifecycle]_vars

----------------------------------------------------------------------------
(* The envelope validation (checked under SpecEnvelope) *)

\* the bodies the validation is meant to admit
Admissible(body) ==
    /\ body.kind = JsonObject
    /\ body.jsonrpc = JsonString("2.0")
    /\ body.method.type = "string" /\ body.method.value # ""
    /\ body.id.type \in {"string", "number", "null"}
    /\ body.params.type \in {"undefined", "object", "array"}

\* C35: a decoded body passes the envelope validation and reaches the switch
\* over the method exactly when its version tag is '2.0', its method is a
\* non-empty string, its id is a string, a number or null and its params is
\* absent, an object or an array; every other body is refused before the
\* switch.
C35_EnvelopeAdmitsExactly ==
    envelope # <<>> /\ envelope.outcome # "received"
        => (envelope.outcome \in {"dispatched", "methodNotFound"}
                <=> Admissible(envelope.body))

----------------------------------------------------------------------------
(* tasks/get and the request id (checked under SpecSeq) *)

\* C36: tasks/get on a task that has a persisted record answers with the
\* persisted snapshot, keyed to the request id, for every request id other
\* than null that the envelope validation admits, 0 and the empty string
\* included; it is refused for a missing request id only when the id is null.
C36_GetAnswersEveryNonNullId ==
    [][(/\ Returns("tasks/get")
        /\ store[returned'[1].task] # None
        /\ ~LoadThrows(returned'[1].task)) =>
           /\ returned'[1].resp # None
           /\ IF returned'[1].id = NullId
              THEN returned'[1].resp[1].type = "error"
              ELSE returned'[1].resp[1] =
                       SuccessResponse(returned'[1].id,
                                       store[returned'[1].task][1])]_vars

----------------------------------------------------------------------------
(* Messages to a working task (checked under SpecSeq) *)

\* the request in slot r has loaded a record whose state is working and is
\* about to save what loadOrCreateTaskAndHistory made of it
LoadedWorking(r) ==
    /\ req[r].pc = "locsave"
    /\ req[r].loaded # None
    /\ req[r].loaded[1].task.status.state = "working"

\* C37: a tasks/send or tasks/sendSubscribe message that arrives for a task
\* whose persisted state is working is only recorded in the history: the
\* task is saved as it was loaded, and no run of the task handler is started
\* for the message.
C37_WorkingTaskStartsNoRun ==
    [][\A r \in Slots :
          LoadedWorking(r) =>
             /\ req[r].data[1].task = req[r].loaded[1].task
             /\ req[r].data[1].history =
                    Append(req[r].loaded[1].history,
                           req[r].data[1].history[Len(req[r].data[1].history)])
             /\ req'[r].pc # "pull"]_vars

============================================================================
